---- MODULE Spec2Model ----
(***************************************************************************)
(* MetamaskInpageProvider (web3-providers): the promise-based JSON-RPC     *)
(* adapter over MetaMask's inpage provider.  The model follows             *)
(* src/packages/web3-providers/src/providers/MetamaskInpageProvider.js.    *)
(* JsonRpcMapper, JsonRpcResponseValidator, AbstractSocketProvider and the *)
(* AbstractMethod hook are not part of the source tree at hand and are     *)
(* modelled from the specification.                                        *)
(*                                                                         *)
(* JavaScript is single threaded: every handler below is one atomic        *)
(* action, and a promise continuation (the .then of send) is a microtask   *)
(* that runs before any further transport event or caller operation.       *)
(***************************************************************************)
EXTENDS Integers, Sequences, FiniteSets, TLC

\* ------------------------------------------------------------------ bounds
MaxCalls == 2
BatchLen == 2
MaxListeners == 1
MaxRegistrations == 2

\* ------------------------------------------------------------ value space
UNDEFINED == "undefined"

NULL == [isNull |-> TRUE, code |-> 0, message |-> "", data |-> ""]

SendMethods == {"eth_call"}
Params == {<<"raw">>}
Results == {"0x1"}
RpcErrors == {[isNull |-> FALSE, code |-> 0 - 32000, message |-> "boom", data |-> "d"]}
TransportErrors == {[isNull |-> FALSE, code |-> 1, message |-> "write failed", data |-> ""]}
MalformedError == [isNull |-> FALSE, code |-> 0, message |-> "malformed response", data |-> ""]

\* Every JavaScript value that travels through a promise has one record shape.
Undef == [kind |-> "undefined", id |-> 0 - 1, result |-> UNDEFINED, error |-> NULL, items |-> <<>>]
Response(id, result, error) ==
    [kind |-> "response", id |-> id, result |-> result, error |-> error, items |-> <<>>]
Aggregate(items) ==
    [kind |-> "batch", id |-> 0 - 1, result |-> UNDEFINED, error |-> NULL, items |-> items]
ErrorV(e) == [kind |-> "error", id |-> 0 - 1, result |-> UNDEFINED, error |-> e, items |-> <<>>]
ValueV(r) == [kind |-> "value", id |-> 0 - 1, result |-> r, error |-> NULL, items |-> <<>>]

\* what the transport pushes on its native channels
NetworkIds == {"1", "3"}
AccountLists == {"0xA,0xB"}
NativeErrors == {"provider error"}
MetamaskParams == {"metamask"}
Messages == {"notification"}

\* result / error combinations a node may answer with
Bodies ==
    [result : Results \cup {UNDEFINED}, error : RpcErrors \cup {NULL}]
\* a batch is answered with one kind of sub-response: results, errors or
\* replies that carry neither
BatchBodies ==
    {b \in Bodies : b.result = UNDEFINED \/ b.error.isNull}

\* ------------------------------------------------------------- event keys
\* the outward channel names removeAllListeners compares its argument with
SOCKET_MESSAGE == "message"
SOCKET_ERROR == "error"
SOCKET_NETWORK_CHANGED == "networkChanged"
SOCKET_ACCOUNTS_CHANGED == "accountsChanged"

OutwardEvents ==
    {SOCKET_MESSAGE, SOCKET_ERROR, SOCKET_NETWORK_CHANGED, SOCKET_ACCOUNTS_CHANGED}
NativeChannels == {"accountsChanged", "networkChanged", "data", "error"}

MaxId == MaxCalls * (BatchLen + 1)
IdKeys == {ToString(i) : i \in 0..MaxId}
Keys == IdKeys \cup OutwardEvents

\* ------------------------------------------------------------------ state
VARIABLES
    messageId,    \* JsonRpcMapper's id counter
    calls,        \* per sendPayload invocation: what the caller passed and what was built
    promise,      \* per invocation: the promise created in sendPayload
    chained,      \* per invocation: the promise send derives with .then ("none" for sendBatch)
    sent,         \* the transport: the writes it received and how it completed them
    listeners,    \* the adapter's EventEmitter table: key -> number of listeners
    native,       \* the transport's listeners: native channel -> attached handlers
    isConnected,  \* the transport's connectivity flag
    ret,          \* the last value a synchronous operation returned; for
                  \* disconnect(), whether the one before it was a disconnect() too
    registrations, \* number of registerEventListeners() calls so far
    emitted,      \* the outward events the last native notification produced
    networkSeen,  \* a native networkChanged notification has been delivered
    last          \* the last listener-lifecycle operation and its argument

vars == <<messageId, calls, promise, chained, sent, listeners, native,
          isConnected, ret, registrations, emitted, networkSeen, last>>

callVars == <<messageId, calls, promise, chained, sent>>
bridgeVars == <<registrations, emitted, networkSeen, last>>

Pending == [state |-> "pending", value |-> Undef, hadListener |-> FALSE, lsnAtSettle |-> 0]
NoPromise == [state |-> "none", value |-> Undef, validated |-> FALSE]
PendingThen == [state |-> "pending", value |-> Undef, validated |-> FALSE]

Init ==
    /\ messageId = 0
    /\ calls = <<>>
    /\ promise = <<>>
    /\ chained = <<>>
    /\ sent = <<>>
    /\ listeners = [k \in Keys |-> 0]
    /\ native = [ch \in NativeChannels |-> <<>>]
    /\ isConnected \in BOOLEAN
    /\ ret = [op |-> "none", value |-> FALSE, afterDisconnect |-> FALSE]
    /\ registrations = 0
    /\ emitted = <<>>
    /\ networkSeen = FALSE
    /\ last = [op |-> "none", arg |-> ""]

\* A continuation of a settled sendPayload promise is queued and has not run.
MicrotaskPending ==
    \E c \in DOMAIN chained :
        chained[c].state = "pending" /\ promise[c].state # "pending"

\* ------------------------------------------------------- pure collaborators
toPayload(method, parameters, id) ==
    [jsonrpc |-> "2.0", id |-> id, method |-> method, params |-> parameters]

validate(response) ==
    IF response.kind # "response" THEN [isError |-> TRUE, error |-> MalformedError]
    ELSE IF ~response.error.isNull THEN [isError |-> TRUE, error |-> response.error]
    ELSE IF response.result = UNDEFINED THEN [isError |-> TRUE, error |-> MalformedError]
    ELSE [isError |-> FALSE, error |-> NULL]

beforeExecution(method) ==
    [method EXCEPT !.parameters = [i \in DOMAIN @ |-> "formatted"],
                   !.hookCalls = @ + 1]

\* payload.id as an EventEmitter key; an array payload has no id
EventKey(payload) ==
    IF payload.isArray THEN UNDEFINED ELSE ToString(payload.items[1].id)

Count(table, key) == IF key \in DOMAIN table THEN table[key] ELSE 0

\* Variant: a settled promise is settled again.
resolve_overwrite(p, value, before, n) ==
    [state |-> "resolved", value |-> value, hadListener |-> (before > 0), lsnAtSettle |-> n]

\* Promise settlement: only a pending promise changes.  before and n are the
\* numbers of listeners the call's key had when the callback was entered and
\* at the moment of settlement.
resolve(p, value, before, n) ==
    IF p.state = "pending"
    THEN [state |-> "resolved", value |-> value, hadListener |-> (before > 0), lsnAtSettle |-> n]
    ELSE p

reject(p, error, before, n) ==
    IF p.state = "pending"
    THEN [state |-> "rejected", value |-> ErrorV(error), hadListener |-> (before > 0),
          lsnAtSettle |-> n]
    ELSE p

\* ------------------------------------------------------- listener removal
RECURSIVE removeListener(_, _)
removeListener(handlers, h) ==
    IF handlers = <<>> THEN <<>>
    ELSE IF Head(handlers) = h THEN Tail(handlers)
    ELSE <<Head(handlers)>> \o removeListener(Tail(handlers), h)

EmitterRemoveAll(table, event) ==
    IF event = UNDEFINED THEN [k \in DOMAIN table |-> 0]
    ELSE [k \in DOMAIN table |-> IF k = event THEN 0 ELSE table[k]]

\* Variant: the base removeAllListeners is called without the event.
removeAllListeners_clearsAll(event) ==
    /\ native' =
         CASE event = SOCKET_NETWORK_CHANGED ->
                [native EXCEPT !["networkChanged"] = removeListener(@, "onNetworkChanged")]
           [] event = SOCKET_ACCOUNTS_CHANGED ->
                [native EXCEPT !["accountsChanged"] = removeListener(@, "onAccountsChanged")]
           [] event = SOCKET_MESSAGE ->
                [native EXCEPT !["data"] = removeListener(@, "onMessage")]
           [] event = SOCKET_ERROR ->
                [native EXCEPT !["error"] = removeListener(@, "onError")]
           [] OTHER -> native
    /\ listeners' = EmitterRemoveAll(listeners, UNDEFINED)

removeAllListeners(event) ==
    /\ native' =
         CASE event = SOCKET_NETWORK_CHANGED ->
                [native EXCEPT !["networkChanged"] = removeListener(@, "onNetworkChanged")]
           [] event = SOCKET_ACCOUNTS_CHANGED ->
                [native EXCEPT !["accountsChanged"] = removeListener(@, "onAccountsChanged")]
           [] event = SOCKET_MESSAGE ->
                [native EXCEPT !["data"] = removeListener(@, "onMessage")]
           [] event = SOCKET_ERROR ->
                [native EXCEPT !["error"] = removeListener(@, "onError")]
           [] OTHER -> native
    /\ listeners' = EmitterRemoveAll(listeners, event)

\* ------------------------------------------------------------- operations
sendPayload(c, payload) ==
    /\ promise' = Append(promise, Pending)
    /\ sent' = Append(sent, [payload |-> payload, cb |-> c, done |-> FALSE,
                             error |-> NULL, response |-> Undef])

send(method, parameters) ==
    /\ ~MicrotaskPending
    /\ Len(calls) < MaxCalls
    /\ LET p == toPayload(method, parameters, messageId)
           payload == [isArray |-> FALSE, items |-> <<p>>]
       IN /\ messageId' = messageId + 1
          /\ calls' = Append(calls,
                 [kind |-> "send", payload |-> payload,
                  input |-> <<[rpcMethod |-> method, parameters |-> parameters, hookCalls |-> 0]>>,
                  methods |-> <<[rpcMethod |-> method, parameters |-> parameters, hookCalls |-> 0]>>,
                  log |-> <<[ev |-> "build", i |-> 1], [ev |-> "write", i |-> 0]>>])
          /\ sendPayload(Len(calls) + 1, payload)
          /\ chained' = Append(chained, PendingThen)
    /\ UNCHANGED <<listeners, native, isConnected, ret>>

\* Variant: the loop builds the payload of a method before calling its hook.
RECURSIVE batchLoop_buildFirst(_, _)
batchLoop_buildFirst(i, acc) ==
    IF i > Len(acc.methods) THEN acc
    ELSE LET p == toPayload(acc.methods[i].rpcMethod, acc.methods[i].parameters, acc.id)
             m == beforeExecution(acc.methods[i])
         IN batchLoop_buildFirst(i + 1,
                [methods |-> [acc.methods EXCEPT ![i] = m],
                 items |-> Append(acc.items, p),
                 log |-> acc.log \o <<[ev |-> "build", i |-> i], [ev |-> "hook", i |-> i]>>,
                 id |-> acc.id + 1])

\* The forEach loop of sendBatch: hook, then build, for each method in order.
RECURSIVE batchLoop(_, _)
batchLoop(i, acc) ==
    IF i > Len(acc.methods) THEN acc
    ELSE LET m == beforeExecution(acc.methods[i])
             p == toPayload(m.rpcMethod, m.parameters, acc.id)
         IN batchLoop(i + 1,
                [methods |-> [acc.methods EXCEPT ![i] = m],
                 items |-> Append(acc.items, p),
                 log |-> acc.log \o <<[ev |-> "hook", i |-> i], [ev |-> "build", i |-> i]>>,
                 id |-> acc.id + 1])

\* Variant: sendBatch chains the validating continuation of send.
sendBatch_validating(methods) ==
    /\ ~MicrotaskPending
    /\ Len(calls) < MaxCalls
    /\ LET b == batchLoop(1, [methods |-> methods, items |-> <<>>, log |-> <<>>,
                              id |-> messageId])
           payload == [isArray |-> TRUE, items |-> b.items]
       IN /\ messageId' = b.id
          /\ calls' = Append(calls,
                 [kind |-> "batch", payload |-> payload, input |-> methods,
                  methods |-> b.methods,
                  log |-> Append(b.log, [ev |-> "write", i |-> 0])])
          /\ sendPayload(Len(calls) + 1, payload)
          /\ chained' = Append(chained, PendingThen)
    /\ UNCHANGED <<listeners, native, isConnected, ret>>

sendBatch(methods) ==
    /\ ~MicrotaskPending
    /\ Len(calls) < MaxCalls
    /\ LET b == batchLoop(1, [methods |-> methods, items |-> <<>>, log |-> <<>>,
                              id |-> messageId])
           payload == [isArray |-> TRUE, items |-> b.items]
       IN /\ messageId' = b.id
          /\ calls' = Append(calls,
                 [kind |-> "batch", payload |-> payload, input |-> methods,
                  methods |-> b.methods,
                  log |-> Append(b.log, [ev |-> "write", i |-> 0])])
          /\ sendPayload(Len(calls) + 1, payload)
          /\ chained' = Append(chained, NoPromise)
    /\ UNCHANGED <<listeners, native, isConnected, ret>>

\* Variant: the callback settles the oldest pending call (arrival order)
\* instead of the call whose closure it is.
sendPayloadCallback_fifo(c, error, response) ==
    LET pend == {d \in DOMAIN promise : promise[d].state = "pending"}
        t == IF pend = {} THEN c ELSE CHOOSE d \in pend : \A e \in pend : d <= e
    IN /\ removeAllListeners(EventKey(calls[c].payload))
       /\ promise' = [promise EXCEPT ![t] =
              IF error.isNull
              THEN resolve(@, response, Count(listeners, EventKey(calls[c].payload)),
                           Count(listeners', EventKey(calls[c].payload)))
              ELSE reject(@, error, Count(listeners, EventKey(calls[c].payload)),
                          Count(listeners', EventKey(calls[c].payload)))]

\* Variant: the callback settles every call that is still pending.
sendPayloadCallback_broadcast(c, error, response) ==
    /\ removeAllListeners(EventKey(calls[c].payload))
    /\ promise' = [d \in DOMAIN promise |->
           IF error.isNull
           THEN resolve(promise[d], response, Count(listeners, EventKey(calls[c].payload)),
                        Count(listeners', EventKey(calls[c].payload)))
           ELSE reject(promise[d], error, Count(listeners, EventKey(calls[c].payload)),
                       Count(listeners', EventKey(calls[c].payload)))]

\* Variant: the callback settles the promise first and removes the
\* listeners afterwards.
sendPayloadCallback_settleFirst(c, error, response) ==
    /\ promise' = [promise EXCEPT ![c] =
           IF error.isNull
           THEN resolve(@, response, Count(listeners, EventKey(calls[c].payload)),
                        Count(listeners, EventKey(calls[c].payload)))
           ELSE reject(@, error, Count(listeners, EventKey(calls[c].payload)),
                       Count(listeners, EventKey(calls[c].payload)))]
    /\ removeAllListeners(EventKey(calls[c].payload))

\* Variant: the callback returns on a transport error before the cleanup.
sendPayloadCallback_errorNoCleanup(c, error, response) ==
    IF error.isNull
    THEN /\ removeAllListeners(EventKey(calls[c].payload))
         /\ promise' = [promise EXCEPT ![c] =
                resolve(@, response, Count(listeners, EventKey(calls[c].payload)),
                        Count(listeners', EventKey(calls[c].payload)))]
    ELSE /\ UNCHANGED <<listeners, native>>
         /\ promise' = [promise EXCEPT ![c] =
                reject(@, error, Count(listeners, EventKey(calls[c].payload)),
                       Count(listeners, EventKey(calls[c].payload)))]

\* The completion callback sendPayload hands to connection.send; c is the
\* invocation whose closure (payload, resolve, reject) the callback holds.
sendPayloadCallback(c, error, response) ==
    /\ removeAllListeners(EventKey(calls[c].payload))
    /\ promise' = [promise EXCEPT ![c] =
           IF error.isNull
           THEN resolve(@, response, Count(listeners, EventKey(calls[c].payload)),
                        Count(listeners', EventKey(calls[c].payload)))
           ELSE reject(@, error, Count(listeners, EventKey(calls[c].payload)),
                       Count(listeners', EventKey(calls[c].payload)))]

\* Variant: the continuation returns the response instead of response.result.
sendThen_envelope(c) ==
    /\ c \in DOMAIN chained
    /\ chained[c].state = "pending"
    /\ promise[c].state # "pending"
    /\ chained' = [chained EXCEPT ![c] =
           IF promise[c].state = "rejected"
           THEN [state |-> "rejected", value |-> promise[c].value, validated |-> FALSE]
           ELSE LET response == promise[c].value
                    validationResult == validate(response)
                IN IF validationResult.isError
                   THEN [state |-> "rejected", value |-> ErrorV(validationResult.error),
                         validated |-> TRUE]
                   ELSE [state |-> "resolved", value |-> response, validated |-> TRUE]]
    /\ UNCHANGED <<messageId, calls, promise, sent, listeners, native,
                   isConnected, ret>>

\* Variant: the continuation returns a present result without looking at the
\* validation outcome.
sendThen_resultFirst(c) ==
    /\ c \in DOMAIN chained
    /\ chained[c].state = "pending"
    /\ promise[c].state # "pending"
    /\ chained' = [chained EXCEPT ![c] =
           IF promise[c].state = "rejected"
           THEN [state |-> "rejected", value |-> promise[c].value, validated |-> FALSE]
           ELSE LET response == promise[c].value
                    validationResult == validate(response)
                IN IF validationResult.isError /\ response.result = UNDEFINED
                   THEN [state |-> "rejected", value |-> ErrorV(validationResult.error),
                         validated |-> TRUE]
                   ELSE [state |-> "resolved", value |-> ValueV(response.result),
                         validated |-> TRUE]]
    /\ UNCHANGED <<messageId, calls, promise, sent, listeners, native,
                   isConnected, ret>>

\* Variant: the continuation throws only when the response carries an error.
sendThen_errorOnly(c) ==
    /\ c \in DOMAIN chained
    /\ chained[c].state = "pending"
    /\ promise[c].state # "pending"
    /\ chained' = [chained EXCEPT ![c] =
           IF promise[c].state = "rejected"
           THEN [state |-> "rejected", value |-> promise[c].value, validated |-> FALSE]
           ELSE LET response == promise[c].value
                    validationResult == validate(response)
                IN IF validationResult.isError /\ ~response.error.isNull
                   THEN [state |-> "rejected", value |-> ErrorV(validationResult.error),
                         validated |-> TRUE]
                   ELSE [state |-> "resolved", value |-> ValueV(response.result),
                         validated |-> TRUE]]
    /\ UNCHANGED <<messageId, calls, promise, sent, listeners, native,
                   isConnected, ret>>

\* The continuation send attaches with .then; it has no rejection handler,
\* so a rejection of the sendPayload promise passes through.
sendThen(c) ==
    /\ c \in DOMAIN chained
    /\ chained[c].state = "pending"
    /\ promise[c].state # "pending"
    /\ chained' = [chained EXCEPT ![c] =
           IF promise[c].state = "rejected"
           THEN [state |-> "rejected", value |-> promise[c].value, validated |-> FALSE]
           ELSE LET response == promise[c].value
                    validationResult == validate(response)
                IN IF validationResult.isError
                   THEN [state |-> "rejected", value |-> ErrorV(validationResult.error),
                         validated |-> TRUE]
                   ELSE [state |-> "resolved", value |-> ValueV(response.result),
                         validated |-> TRUE]]
    /\ UNCHANGED <<messageId, calls, promise, sent, listeners, native,
                   isConnected, ret>>

RemoveAllListeners(event) ==
    /\ ~MicrotaskPending
    /\ removeAllListeners(event)
    /\ UNCHANGED <<messageId, calls, promise, chained, sent, isConnected, ret>>

\* A caller registers a listener under the correlation id of a call in flight.
on(c) ==
    /\ ~MicrotaskPending
    /\ c \in DOMAIN calls
    /\ calls[c].kind = "send"
    /\ promise[c].state = "pending"
    /\ listeners[EventKey(calls[c].payload)] < MaxListeners
    /\ listeners' = [listeners EXCEPT ![EventKey(calls[c].payload)] = @ + 1]
    /\ UNCHANGED <<messageId, calls, promise, chained, sent, native,
                   isConnected, ret>>

\* Variant: disconnect reports the transport's connectivity.
disconnect_reportsState ==
    /\ ~MicrotaskPending
    /\ ret' = [op |-> "disconnect", value |-> isConnected,
               afterDisconnect |-> (ret.op = "disconnect")]
    /\ UNCHANGED <<messageId, calls, promise, chained, sent, listeners, native, isConnected>>

\* Variant: disconnect tears the connection down.
disconnect_teardown ==
    /\ ~MicrotaskPending
    /\ ret' = [op |-> "disconnect", value |-> TRUE,
               afterDisconnect |-> (ret.op = "disconnect")]
    /\ isConnected' = FALSE
    /\ UNCHANGED <<messageId, calls, promise, chained, sent, listeners, native>>

disconnect ==
    /\ ~MicrotaskPending
    /\ ret' = [op |-> "disconnect", value |-> TRUE,
               afterDisconnect |-> (ret.op = "disconnect")]
    /\ UNCHANGED <<messageId, calls, promise, chained, sent, listeners, native, isConnected>>

connected ==
    /\ ~MicrotaskPending
    /\ ret' = [op |-> "connected", value |-> isConnected, afterDisconnect |-> FALSE]
    /\ UNCHANGED <<messageId, calls, promise, chained, sent, listeners, native,
                   isConnected>>

\* ---------------------------------------------------------- the transport
\* What the node answers to a written payload: the id of every request is
\* echoed, a batch is answered by one reply per request.
ResponsesTo(payload) ==
    IF payload.isArray
    THEN {Aggregate([i \in DOMAIN payload.items |->
                        Response(payload.items[i].id, b.result, b.error)]) :
             b \in BatchBodies}
    ELSE {Response(payload.items[1].id, b.result, b.error) : b \in Bodies}

\* The transport completes one of its writes, in any order, through the
\* completion callback that was passed with that write.
TransportComplete(w) ==
    /\ ~MicrotaskPending
    /\ w \in DOMAIN sent
    /\ ~sent[w].done
    /\ \E error \in TransportErrors \cup {NULL} :
       \E response \in (IF error.isNull THEN ResponsesTo(sent[w].payload) ELSE {Undef}) :
          /\ sent' = [sent EXCEPT ![w] = [@ EXCEPT !.done = TRUE, !.error = error,
                                                   !.response = response]]
          /\ sendPayloadCallback(sent[w].cb, error, response)
    /\ UNCHANGED <<messageId, calls, chained, isConnected, ret>>

\* The transport's connectivity changes; its lifecycle is owned externally.
ConnectivityChange ==
    /\ ~MicrotaskPending
    /\ isConnected' = ~isConnected
    /\ UNCHANGED <<messageId, calls, promise, chained, sent, listeners, native,
                   ret>>

\* The method lists handed to sendBatch: BatchLen methods whose neighbours
\* differ, so that the order of the written payload is visible.
MethodCycle == <<"eth_a", "eth_b">>
BatchInputs ==
    {[i \in 1..n |-> [rpcMethod |-> MethodCycle[((i - 1) % Len(MethodCycle)) + 1],
                      parameters |-> p, hookCalls |-> 0]] :
        n \in {BatchLen}, p \in Params}

\* The keys a caller may hand to removeAllListeners: an outward channel, the
\* correlation id of a call it made, or nothing at all.
CallerKeys ==
    OutwardEvents \cup {UNDEFINED}
        \cup {EventKey(calls[c].payload) : c \in DOMAIN calls}

\* -------------------------------------------------------- the event bridge
\* Function.prototype.bind returns a new function: bind(f) is not f.
bind(f) == "bound " \o f

\* Variant: the network handler is attached to the error channel.
registerEventListeners_errorAsNetwork ==
    /\ native' = [native EXCEPT
           !["accountsChanged"] = Append(@, bind("onAccountsChanged")),
           !["networkChanged"] = @ \o <<bind("onReady"), bind("onNetworkChanged")>>,
           !["data"] = Append(@, bind("onMessage")),
           !["error"] = Append(@, bind("onNetworkChanged"))]
    /\ registrations' = registrations + 1
    /\ last' = [op |-> "registerEventListeners", arg |-> ""]
    /\ UNCHANGED <<callVars, listeners, isConnected, ret, emitted, networkSeen>>

registerEventListeners ==
    /\ native' = [native EXCEPT
           !["accountsChanged"] = Append(@, bind("onAccountsChanged")),
           !["networkChanged"] = @ \o <<bind("onReady"), bind("onNetworkChanged")>>,
           !["data"] = Append(@, bind("onMessage")),
           !["error"] = Append(@, bind("onError"))]
    /\ registrations' = registrations + 1
    /\ last' = [op |-> "registerEventListeners", arg |-> ""]
    /\ UNCHANGED <<callVars, listeners, isConnected, ret, emitted, networkSeen>>

\* this.emit(name, value)
emit(name, value) == <<[name |-> name, value |-> value]>>

\* handlers of the base provider
superOnMessage(response) == emit(SOCKET_MESSAGE, response)
onReady(event) == emit("ready", event)
onError(error) == emit("error", error)

\* Variant: the first argument is handed on.
onMessage_firstArgument(metamaskParam, payload) == superOnMessage(metamaskParam)

onMessage(metamaskParam, payload) == superOnMessage(payload)

\* Variant: the network id is emitted under the accounts channel's name.
onNetworkChanged_wrongName(networkId) == emit("accountsChanged", networkId)

onNetworkChanged(networkId) == emit("networkChanged", networkId)

onAccountsChanged(accounts) == emit("accountsChanged", accounts)

\* a handler attached to the transport is called with the notification's arguments
Invoke(h, args) ==
    CASE h \in {"onNetworkChanged", bind("onNetworkChanged")} -> onNetworkChanged(args[1])
      [] h \in {"onAccountsChanged", bind("onAccountsChanged")} -> onAccountsChanged(args[1])
      [] h \in {"onMessage", bind("onMessage")} -> onMessage(args[1], args[2])
      [] h \in {"onReady", bind("onReady")} -> onReady(args[1])
      [] h \in {"onError", bind("onError")} -> onError(args[1])
      [] OTHER -> <<>>

RECURSIVE InvokeAll(_, _)
InvokeAll(handlers, args) ==
    IF handlers = <<>> THEN <<>>
    ELSE Invoke(Head(handlers), args) \o InvokeAll(Tail(handlers), args)

\* The transport emits on one of its native channels; every handler attached
\* to the channel runs, in the order of attachment.
NativeNotification(channel, args) ==
    /\ ~MicrotaskPending
    /\ native[channel] # <<>>
    /\ emitted' = InvokeAll(native[channel], args)
    /\ networkSeen' = (networkSeen \/ channel = "networkChanged")
    /\ last' = [op |-> channel, arg |-> args[Len(args)]]
    /\ UNCHANGED <<callVars, listeners, native, isConnected, ret, registrations>>

NativeArgs(channel) ==
    CASE channel = "networkChanged" -> {<<n>> : n \in NetworkIds}
      [] channel = "accountsChanged" -> {<<a>> : a \in AccountLists}
      [] channel = "data" -> {<<p, m>> : p \in MetamaskParams, m \in Messages}
      [] channel = "error" -> {<<e>> : e \in NativeErrors}

\* A caller subscribes to one of the outward channels.
onEvent(name) ==
    /\ ~MicrotaskPending
    /\ name \in OutwardEvents
    /\ listeners[name] < MaxListeners
    /\ listeners' = [listeners EXCEPT ![name] = @ + 1]
    /\ UNCHANGED <<callVars, native, isConnected, ret, bridgeVars>>

\* The transport invokes the completion callback of a write once more.
TransportRepeat(w) ==
    /\ ~MicrotaskPending
    /\ w \in DOMAIN sent
    /\ sent[w].done
    /\ \E error \in TransportErrors \cup {NULL} :
       \E response \in (IF error.isNull THEN ResponsesTo(sent[w].payload) ELSE {Undef}) :
          sendPayloadCallback(sent[w].cb, error, response)
    /\ last' = [op |-> "callbackAgain", arg |-> ToString(w)]
    /\ UNCHANGED <<messageId, calls, chained, sent, isConnected, ret,
                   registrations, emitted, networkSeen>>

\* removeAllListeners as a step of the listener lifecycle
Stop(event) ==
    /\ RemoveAllListeners(event)
    /\ last' = [op |-> "removeAllListeners", arg |-> event]
    /\ UNCHANGED <<registrations, emitted, networkSeen>>

\* the outward channels callers subscribe to in the bridge's specification
SubscribedEvents == {SOCKET_MESSAGE, SOCKET_NETWORK_CHANGED}

\* The bridge, with one call in flight.
NextBridge ==
    \/ registrations < MaxRegistrations /\ registerEventListeners
    \/ \E ch \in NativeChannels : \E args \in NativeArgs(ch) : NativeNotification(ch, args)
    \/ \E event \in CallerKeys : Stop(event)
    \/ \E name \in SubscribedEvents : onEvent(name)
    \/ \E m \in SendMethods, p \in Params :
          calls = <<>> /\ send(m, p) /\ UNCHANGED bridgeVars
    \/ \E c \in 1..MaxCalls : on(c) /\ UNCHANGED bridgeVars

SpecBridge == Init /\ [][NextBridge]_vars

\* Everything that happens around single calls in flight: completions in
\* any order, native notifications, disconnect() and removeAllListeners; the
\* listeners are attached once.
NextSettle ==
    \/ registrations = 0 /\ registerEventListeners
    \/ \E ch \in NativeChannels : \E args \in NativeArgs(ch) : NativeNotification(ch, args)
    \/ \E event \in CallerKeys : RemoveAllListeners(event) /\ UNCHANGED bridgeVars
    \/ \E m \in SendMethods, p \in Params : send(m, p) /\ UNCHANGED bridgeVars
    \/ \E w \in 1..MaxCalls : TransportComplete(w) /\ UNCHANGED bridgeVars
    \/ \E c \in 1..MaxCalls : sendThen(c) /\ UNCHANGED bridgeVars
    \/ \E c \in 1..MaxCalls : on(c) /\ UNCHANGED bridgeVars
    \/ disconnect /\ UNCHANGED bridgeVars

SpecSettle == Init /\ [][NextSettle]_vars

\* Calls whose completion callback the transport may invoke more than once.
NextRepeat ==
    \/ \E w \in 1..MaxCalls : TransportRepeat(w)
    \/ \E m \in SendMethods, p \in Params : send(m, p) /\ UNCHANGED bridgeVars
    \/ \E ms \in BatchInputs : sendBatch(ms) /\ UNCHANGED bridgeVars
    \/ \E w \in 1..MaxCalls : TransportComplete(w) /\ UNCHANGED bridgeVars
    \/ \E c \in 1..MaxCalls : sendThen(c) /\ UNCHANGED bridgeVars
    \/ \E c \in 1..MaxCalls : on(c) /\ UNCHANGED bridgeVars

SpecRepeat == Init /\ [][NextRepeat]_vars

Next ==
    \/ \E m \in SendMethods, p \in Params : send(m, p) /\ UNCHANGED bridgeVars
    \/ \E ms \in BatchInputs : sendBatch(ms) /\ UNCHANGED bridgeVars
    \/ \E w \in 1..MaxCalls : TransportComplete(w) /\ UNCHANGED bridgeVars
    \/ \E c \in 1..MaxCalls : sendThen(c) /\ UNCHANGED bridgeVars
    \/ \E c \in 1..MaxCalls : on(c) /\ UNCHANGED bridgeVars
    \/ \E event \in CallerKeys : RemoveAllListeners(event) /\ UNCHANGED bridgeVars
    \/ disconnect /\ UNCHANGED bridgeVars
    \/ connected /\ UNCHANGED bridgeVars
    \/ ConnectivityChange /\ UNCHANGED bridgeVars

Spec == Init /\ [][Next]_vars

\* ================================================================== claims
\* the transport write made for invocation c, and what the caller holds
WriteOf(c) == CHOOSE w \in DOMAIN sent : sent[w].cb = c
Returned(c) == IF chained[c].state = "none" THEN promise[c] ELSE chained[c]
SendCalls == {c \in DOMAIN calls : calls[c].kind = "send"}
BatchCalls == {c \in DOMAIN calls : calls[c].kind = "batch"}
IdOf(c) == calls[c].payload.items[1].id
Position(log, ev, i) == CHOOSE k \in DOMAIN log : log[k] = [ev |-> ev, i |-> i]

\* C1: whatever the order in which the transport completes concurrently
\* pending send calls, a call that settled with a response holds the response
\* the transport delivered to its own write, whose id is the id of the call's
\* own payload and of no other call's payload.
C1_OwnResponse ==
    \A c \in SendCalls :
        promise[c].state = "resolved" =>
            /\ promise[c].value.kind = "response"
            /\ promise[c].value.id = IdOf(c)
            /\ sent[WriteOf(c)].done
            /\ promise[c].value = sent[WriteOf(c)].response
            /\ \A d \in SendCalls \ {c} : promise[c].value.id # IdOf(d)

\* two send calls were pending together and the later one was answered first
C1_Witness ==
    \E c, d \in SendCalls :
        /\ c < d
        /\ promise[c].state = "pending"
        /\ promise[d].state = "resolved"
        /\ promise[d].value.id = IdOf(d)

\* C2: once the promise of a single call is settled, on the success path and
\* on the transport-error path, no listener is registered under the call's
\* correlation id, and none was registered at the moment of settlement (the
\* removal precedes resolve and reject, hence every continuation).
C2_ListenersRemovedBeforeSettle ==
    \A c \in SendCalls :
        promise[c].state # "pending" =>
            /\ promise[c].lsnAtSettle = 0
            /\ listeners[EventKey(calls[c].payload)] = 0

\* a call that had a listener under its id is resolved, its continuation not yet run
C2_Witness ==
    \E c \in SendCalls :
        /\ promise[c].state = "resolved"
        /\ promise[c].hadListener
        /\ promise[c].lsnAtSettle = 0
        /\ chained[c].state = "pending"

\* C3: when the write of a send completed without error and the validator
\* classifies the response as well formed, the promise send returned resolves
\* with the response's result field and not with the envelope.
C3_ResolvesWithResultOnly ==
    \A c \in SendCalls :
        (/\ chained[c].state # "pending"
         /\ sent[WriteOf(c)].error.isNull
         /\ ~validate(sent[WriteOf(c)].response).isError) =>
            /\ chained[c].state = "resolved"
            /\ chained[c].value = ValueV(sent[WriteOf(c)].response.result)
            /\ chained[c].value.kind # "response"

C3_Witness ==
    \E c \in SendCalls :
        /\ chained[c].state = "resolved"
        /\ sent[WriteOf(c)].response.kind = "response"
        /\ chained[c].value.result = sent[WriteOf(c)].response.result
        /\ chained[c].value.result \in Results

\* C4: a response with a non-null error field rejects the promise send
\* returned with that very error object, whether or not a result is present;
\* such a call is never resolved.
C4_ErrorRejects ==
    \A c \in SendCalls :
        (/\ chained[c].state # "pending"
         /\ sent[WriteOf(c)].error.isNull
         /\ ~sent[WriteOf(c)].response.error.isNull) =>
            /\ chained[c].state = "rejected"
            /\ chained[c].value = ErrorV(sent[WriteOf(c)].response.error)

\* a response carrying both an error and a result was rejected with the error
C4_Witness ==
    \E c \in SendCalls :
        /\ chained[c].state = "rejected"
        /\ sent[WriteOf(c)].error.isNull
        /\ sent[WriteOf(c)].response.result # UNDEFINED
        /\ sent[WriteOf(c)].response.error \in RpcErrors
        /\ chained[c].value.error = sent[WriteOf(c)].response.error

\* C5: a response with neither a result nor an error rejects the promise send
\* returned; no send promise is ever resolved with undefined.
C5_MalformedRejects ==
    \A c \in SendCalls :
        /\ (/\ chained[c].state # "pending"
            /\ sent[WriteOf(c)].error.isNull
            /\ sent[WriteOf(c)].response.result = UNDEFINED
            /\ sent[WriteOf(c)].response.error.isNull) =>
               chained[c].state = "rejected"
        /\ chained[c].state = "resolved" => chained[c].value.result # UNDEFINED

C5_Witness ==
    \E c \in SendCalls :
        /\ chained[c].state = "rejected"
        /\ sent[WriteOf(c)].error.isNull
        /\ sent[WriteOf(c)].response.kind = "response"
        /\ sent[WriteOf(c)].response.result = UNDEFINED
        /\ sent[WriteOf(c)].response.error.isNull

\* C6: when the completion callback reports an error, the call is rejected
\* with exactly that error, no listener is left under the payload's id at the
\* moment of the rejection, and the validator is never applied.
C6_TransportErrorRejects ==
    \A c \in DOMAIN calls :
        (sent[WriteOf(c)].done /\ ~sent[WriteOf(c)].error.isNull) =>
            /\ promise[c].state = "rejected"
            /\ promise[c].value = ErrorV(sent[WriteOf(c)].error)
            /\ promise[c].lsnAtSettle = 0
            /\ Count(listeners, EventKey(calls[c].payload)) = 0
            /\ ~chained[c].validated
            /\ chained[c].state \in {"pending", "rejected", "none"}
            /\ chained[c].state = "rejected" =>
                   chained[c].value = ErrorV(sent[WriteOf(c)].error)

\* a send that had a listener under its id failed in the transport and its
\* caller saw the rejection
C6_Witness ==
    \E c \in SendCalls :
        /\ sent[WriteOf(c)].error \in TransportErrors
        /\ promise[c].hadListener
        /\ promise[c].lsnAtSettle = 0
        /\ chained[c].state = "rejected"
        /\ ~chained[c].validated

\* C7: sendBatch makes exactly one transport write; the written payload is a
\* sequence with one element per method, in the order of the input; the hook
\* of every method ran exactly once, before that method's payload was built
\* (the payload carries the parameters the hook left) and before the write.
C7_BatchOneOrderedWrite ==
    /\ Len(sent) = Len(calls)
    /\ \A c \in BatchCalls :
        LET w == sent[WriteOf(c)]
            n == Len(calls[c].input)
        IN /\ Cardinality({k \in DOMAIN sent : sent[k].cb = c}) = 1
           /\ w.payload = calls[c].payload
           /\ w.payload.isArray
           /\ Len(w.payload.items) = n
           /\ Len(calls[c].log) = 2 * n + 1
           /\ \A i \in 1..n :
                /\ w.payload.items[i].method = calls[c].input[i].rpcMethod
                /\ w.payload.items[i].params = calls[c].methods[i].parameters
                /\ calls[c].methods[i].hookCalls = calls[c].input[i].hookCalls + 1
                /\ Cardinality({k \in DOMAIN calls[c].log :
                                   calls[c].log[k] = [ev |-> "hook", i |-> i]}) = 1
                /\ Position(calls[c].log, "hook", i) < Position(calls[c].log, "build", i)
                /\ Position(calls[c].log, "build", i) < Position(calls[c].log, "write", 0)
                /\ \A j \in 1..n : i < j =>
                       Position(calls[c].log, "build", i) < Position(calls[c].log, "build", j)

\* a batch of two different methods was written
C7_Witness ==
    \E c \in BatchCalls :
        /\ Len(calls[c].input) >= 2
        /\ calls[c].input[1].rpcMethod # calls[c].input[2].rpcMethod
        /\ sent[WriteOf(c)].payload.items[1].method = calls[c].input[1].rpcMethod
        /\ sent[WriteOf(c)].payload.items[2].method = calls[c].input[2].rpcMethod
        /\ calls[c].methods[2].parameters # calls[c].input[2].parameters

\* C8: the promise sendBatch returned resolves with the aggregate reply as the
\* transport delivered it whenever the write completed without error, also
\* when sub-responses carry errors or are malformed; it rejects exactly when
\* the transport reported an error.
C8_BatchRawReply ==
    \A c \in BatchCalls :
        sent[WriteOf(c)].done =>
            /\ sent[WriteOf(c)].error.isNull =>
                   /\ Returned(c).state = "resolved"
                   /\ Returned(c).value = sent[WriteOf(c)].response
            /\ ~sent[WriteOf(c)].error.isNull => Returned(c).state = "rejected"

\* a batch resolved with a reply whose sub-responses the validator would reject
C8_Witness ==
    \E c \in BatchCalls :
        /\ Returned(c).state = "resolved"
        /\ Returned(c).value.kind = "batch"
        /\ Len(Returned(c).value.items) >= 1
        /\ \A i \in DOMAIN Returned(c).value.items :
               validate(Returned(c).value.items[i]).isError

\* C9: disconnect() returns true in every state, whatever the transport's
\* connectivity flag and however often it was called before.
C9_DisconnectReturnsTrue ==
    ret.op = "disconnect" => ret.value = TRUE

\* disconnect() was called again, on a transport that is not connected
C9_Witness ==
    /\ ret.op = "disconnect"
    /\ ret.afterDisconnect
    /\ ~isConnected
    /\ ret.value = TRUE

\* C10: reading the connected property yields the transport's connectivity
\* flag, and every step that changes the flag is a step of the transport
\* alone: no adapter operation, disconnect() included, changes it.
C10_ConnectedDelegates ==
    [][/\ (ret'.op = "connected" /\ ret' # ret) => ret'.value = isConnected'
       /\ (isConnected' # isConnected) =>
              UNCHANGED <<messageId, calls, promise, chained, sent, listeners, native, ret>>]_vars

\* disconnect() returned and the transport is still connected
C10_Witness ==
    /\ ret.op = "disconnect"
    /\ isConnected
    /\ Len(calls) > 0

\* ------------------------------------------------ claims on the event bridge
\* what one call of registerEventListeners attaches
AttachedOnce ==
    [ch \in NativeChannels |->
        CASE ch = "accountsChanged" -> <<bind("onAccountsChanged")>>
          [] ch = "networkChanged" -> <<bind("onReady"), bind("onNetworkChanged")>>
          [] ch = "data" -> <<bind("onMessage")>>
          [] ch = "error" -> <<bind("onError")>>]

\* the native channel and the handler an outward channel maps back to
ChannelOf(event) ==
    CASE event = SOCKET_NETWORK_CHANGED -> "networkChanged"
      [] event = SOCKET_ACCOUNTS_CHANGED -> "accountsChanged"
      [] event = SOCKET_MESSAGE -> "data"
      [] event = SOCKET_ERROR -> "error"
HandlerOf(event) ==
    CASE event = SOCKET_NETWORK_CHANGED -> "onNetworkChanged"
      [] event = SOCKET_ACCOUNTS_CHANGED -> "onAccountsChanged"
      [] event = SOCKET_MESSAGE -> "onMessage"
      [] event = SOCKET_ERROR -> "onError"
Attached(ch, f) == \E i \in DOMAIN native[ch] : native[ch][i] \in {f, bind(f)}
Times(name) == Cardinality({i \in DOMAIN emitted : emitted[i].name = name})

\* C11: registerEventListeners is idempotent: after two calls every native
\* channel carries the listeners one call attaches, and a native notification
\* yields each outward event once.
C11_RegisterIdempotent ==
    registrations >= 2 =>
        /\ native = AttachedOnce
        /\ last.op \in NativeChannels =>
               \A i \in DOMAIN emitted : Times(emitted[i].name) = 1

\* C12: after removeAllListeners(eventName) for an outward channel the
\* adapter's handler is no longer attached to the corresponding native
\* channel; after removeAllListeners() no adapter handler is attached at all.
C12_StopDetaches ==
    last.op = "removeAllListeners" =>
        /\ last.arg \in OutwardEvents =>
               ~Attached(ChannelOf(last.arg), HandlerOf(last.arg))
        /\ last.arg = UNDEFINED => \A ch \in NativeChannels : native[ch] = <<>>

\* C13: of a native message notification (ignorableArg, payload) only the
\* payload, unmodified, reaches the downstream message handling; the
\* ignorable argument is never passed on.
C13_PayloadOnly ==
    last.op = "data" =>
        /\ emitted # <<>>
        /\ \A i \in DOMAIN emitted :
              /\ emitted[i].name = SOCKET_MESSAGE
              /\ emitted[i].value = last.arg
              /\ emitted[i].value \notin MetamaskParams

C13_Witness ==
    /\ last.op = "data"
    /\ registrations = 1
    /\ emitted = <<[name |-> SOCKET_MESSAGE, value |-> last.arg]>>
    /\ last.arg \in Messages

\* C14: a native error notification is re-emitted as an outward error event
\* carrying the same error value, and it settles no call: every promise is
\* after the notification what it was before it.
C14_ErrorReemittedOnly ==
    [][\A e \in NativeErrors :
          NativeNotification("error", <<e>>) =>
              /\ emitted' # <<>>
              /\ \A i \in DOMAIN emitted' : emitted'[i] = [name |-> SOCKET_ERROR, value |-> e]
              /\ promise' = promise
              /\ chained' = chained]_vars

\* an error notification was re-emitted while a call was pending
C14_Witness ==
    /\ last.op = "error"
    /\ last.arg \in NativeErrors
    /\ emitted = <<[name |-> SOCKET_ERROR, value |-> last.arg]>>
    /\ \E c \in SendCalls : promise[c].state = "pending" /\ ~sent[WriteOf(c)].done

\* C15: a call is settled at most once: once its promise is resolved or
\* rejected, no later step, a further invocation of the transport callback
\* included, changes its state or its value; the same holds for the promise
\* send returns.
C15_SettledOnce ==
    [][\A c \in DOMAIN promise :
          /\ promise[c].state # "pending" =>
                 /\ promise'[c].state = promise[c].state
                 /\ promise'[c].value = promise[c].value
          /\ chained[c].state \in {"resolved", "rejected"} =>
                 /\ chained'[c].state = chained[c].state
                 /\ chained'[c].value = chained[c].value]_vars

\* the transport invoked the callback of a completed write again and the
\* call holds what the first completion delivered
C15_Witness ==
    /\ last.op = "callbackAgain"
    /\ \E w \in DOMAIN sent :
          /\ last.arg = ToString(w)
          /\ sent[w].done
          /\ promise[sent[w].cb].state = "resolved"
          /\ promise[sent[w].cb].value = sent[w].response
          /\ chained[sent[w].cb].state = "resolved"

\* C16: a pending call whose write the transport has not completed stays
\* pending over every step: completions of other writes, native
\* notifications, disconnect() and removeAllListeners leave it pending, and
\* no step stands for a timeout.
C16_StaysPending ==
    [][\A c \in DOMAIN promise :
          (promise[c].state = "pending" /\ ~sent'[WriteOf(c)].done) =>
              /\ promise'[c].state = "pending"
              /\ chained'[c] = chained[c]]_vars

\* a call is pending with its write open after another call settled, a
\* native notification was re-emitted and disconnect() returned
C16_Witness ==
    /\ ret.op = "disconnect"
    /\ last.op \in NativeChannels
    /\ emitted # <<>>
    /\ \E c, d \in SendCalls :
          /\ promise[c].state = "pending"
          /\ ~sent[WriteOf(c)].done
          /\ listeners[EventKey(calls[c].payload)] = 0
          /\ promise[d].state \in {"resolved", "rejected"}
          /\ chained[d].state \in {"resolved", "rejected"}

\* C17: while the listeners are attached, a native accountsChanged
\* notification is re-emitted as accountsChanged with the same address list
\* and a native networkChanged notification as networkChanged with the same
\* network id; nothing is re-emitted under another channel's name.
C17_IdentityTranslation ==
    /\ last.op = "accountsChanged" =>
          /\ emitted # <<>>
          /\ \A i \in DOMAIN emitted :
                emitted[i] = [name |-> "accountsChanged", value |-> last.arg]
    /\ last.op = "networkChanged" =>
          /\ \E i \in DOMAIN emitted :
                emitted[i] = [name |-> "networkChanged", value |-> last.arg]
          /\ \A i \in DOMAIN emitted :
                /\ emitted[i].name \in {"networkChanged", "ready"}
                /\ emitted[i].value = last.arg

C17_Witness ==
    /\ last.op = "networkChanged"
    /\ last.arg \in NetworkIds
    /\ \E i \in DOMAIN emitted :
          emitted[i] = [name |-> "networkChanged", value |-> last.arg]

\* C18: the ready signal comes with the first native networkChanged
\* notification only: none before it, one with it, and later networkChanged
\* notifications yield the outward networkChanged event without a ready signal.
C18_ReadyOnlyFirst ==
    [][\A args \in NativeArgs("networkChanged") :
          NativeNotification("networkChanged", args) =>
              /\ ~networkSeen => (Times("ready") = 0 /\ Times("ready")' >= 1)
              /\ networkSeen => Times("ready")' = 0]_vars

\* C19: removeAllListeners(name) for an outward channel whose handler is not
\* attached to the native channel is a no-op for everything else: the
\* transport's listeners stay as they are, and so do the listeners of every
\* other outward channel and of every correlation id.
C19_StopUnattachedIsNoop ==
    [][\A e \in OutwardEvents :
          (Stop(e) /\ \A i \in DOMAIN native[ChannelOf(e)] :
                          native[ChannelOf(e)][i] # HandlerOf(e)) =>
              /\ native' = native
              /\ \A k \in Keys \ {e} : listeners'[k] = listeners[k]]_vars

\* removeAllListeners("message") ran before any listener was attached, while
\* another channel and a call in flight had listeners
C19_Witness ==
    /\ last = [op |-> "removeAllListeners", arg |-> SOCKET_MESSAGE]
    /\ native["data"] = <<>>
    /\ listeners[SOCKET_NETWORK_CHANGED] > 0
    /\ \E c \in SendCalls :
          promise[c].state = "pending" /\ listeners[EventKey(calls[c].payload)] > 0

\* C20: the completion of a sendBatch write removes no listener: the
\* adapter's listener table is after the completion what it was before it.
C20_BatchCompletionKeepsListeners ==
    [][\A w \in DOMAIN sent :
          (sent[w].payload.isArray /\ TransportComplete(w)) =>
              listeners' = listeners]_vars

====
